---- MODULE Spec2Model ----
(***************************************************************************)
(* paxmark (src/src/main.rs): reconciliation of the user.pax.flags         *)
(* extended attribute against the marks requested on the command line.     *)
(*                                                                         *)
(* Characters and bytes are their code values (ASCII letters are one byte  *)
(* in UTF-8), strings are sequences of them.                               *)
(***************************************************************************)
EXTENDS Integers, Sequences, FiniteSets, TLC

VARIABLES
    pc,             \* position in main (or in the test harness)
    args,           \* the command line handed to Cli::try_parse
    cli,            \* the parsed Cli (the ten booleans), NoCli before parsing
    store,          \* the user.pax.flags attribute of the binary
    storeOwn,       \* the attribute holds what the previous run of the same command wrote
    current,        \* main: current
    delta,          \* main: delta, a map from mark to Delta
    new,            \* main: new
    valid_current,  \* main: valid_current
    stdout,         \* what println! wrote
    stderr,         \* what eprintln! wrote
    observed        \* test harness: the last call and its result

vars == <<pc, args, cli, store, storeOwn, current, delta, new, valid_current,
          stdout, stderr, observed>>

----------------------------------------------------------------------------
(* Bounds of the explored inputs *)

\* longest attribute value drawn over the whole alphabet
MaxLen == 2

\* most mark options given on one command line with such a value
MaxFlags == 1

----------------------------------------------------------------------------
(* Characters *)

chP == 80
chE == 69
chM == 77
chR == 82
chS == 83
chQ == 81
chq == 113
InvalidByte == 255

\* the keys of the map built by get_delta
Marks == {chP, chE, chM, chR, chS}

to_ascii_uppercase(c) == IF c >= 97 /\ c <= 122 THEN c - 32 ELSE c

to_ascii_lowercase(c) == IF c >= 65 /\ c <= 90 THEN c + 32 ELSE c

\* "PEMRS"
DefaultFlags == <<chP, chE, chM, chR, chS>>

----------------------------------------------------------------------------
(* Delta *)

Delta == {"Enable", "Disable", "Keep"}

\* the first two arms of the match exchanged
Delta_new_DisableFirst(enable, disable) ==
    IF disable THEN "Disable"
    ELSE IF enable THEN "Enable"
    ELSE "Keep"

\* match (enable, disable): the arms are tried in order
Delta_new(enable, disable) ==
    IF enable THEN "Enable"
    ELSE IF disable THEN "Disable"
    ELSE "Keep"

\* Keep folds the character to upper case as well
apply_KeepUpper(self, c) ==
    IF self = "Disable" THEN to_ascii_lowercase(c) ELSE to_ascii_uppercase(c)

\* Enable and Disable exchanged
apply_Swapped(self, c) ==
    IF self = "Enable" THEN to_ascii_lowercase(c)
    ELSE IF self = "Disable" THEN to_ascii_uppercase(c)
    ELSE c

apply(self, c) ==
    IF self = "Enable" THEN to_ascii_uppercase(c)
    ELSE IF self = "Disable" THEN to_ascii_lowercase(c)
    ELSE c

\* Cli::get_delta: one entry per mark, from the mark's pair of booleans
get_delta(c) == [m \in Marks |-> Delta_new(c[m][1], c[m][2])]

----------------------------------------------------------------------------
(* BTreeMap<char, Delta> as a function whose domain is the set of keys *)

\* the entry is looked up and left in the map
MapRemove_Get(d, k) == d

\* BTreeMap::remove: the map without the key
MapRemove(d, k) == [x \in (DOMAIN d) \ {k} |-> d[x]]

EmptyMap == [x \in {} |-> "Keep"]

\* the smallest key, the first one into_iter yields
FirstKey(keys) == CHOOSE k \in keys : \A x \in keys : k <= x

----------------------------------------------------------------------------
(* The scan of current: chars().filter_map(..).collect() *)

\* a character that matches no entry is dropped without clearing the flag
RECURSIVE ScanFrom_NoFlag(_, _, _, _)
ScanFrom_NoFlag(cur, d, out, valid) ==
    IF cur = <<>> THEN [delta |-> d, new |-> out, valid |-> valid]
    ELSE LET c == Head(cur)
             k == to_ascii_uppercase(c)
         IN  IF k \in DOMAIN d
             THEN ScanFrom_NoFlag(Tail(cur), MapRemove(d, k), Append(out, apply(d[k], c)), valid)
             ELSE ScanFrom_NoFlag(Tail(cur), d, out, valid)

\* the directive is applied to the key instead of the character read
RECURSIVE ScanFrom_ApplyKey(_, _, _, _)
ScanFrom_ApplyKey(cur, d, out, valid) ==
    IF cur = <<>> THEN [delta |-> d, new |-> out, valid |-> valid]
    ELSE LET c == Head(cur)
             k == to_ascii_uppercase(c)
         IN  IF k \in DOMAIN d
             THEN ScanFrom_ApplyKey(Tail(cur), MapRemove(d, k), Append(out, apply(d[k], k)), valid)
             ELSE ScanFrom_ApplyKey(Tail(cur), d, out, FALSE)

RECURSIVE ScanFrom(_, _, _, _)
ScanFrom(cur, d, out, valid) ==
    IF cur = <<>> THEN [delta |-> d, new |-> out, valid |-> valid]
    ELSE LET c == Head(cur)
             k == to_ascii_uppercase(c)
         IN  IF k \in DOMAIN d
             THEN ScanFrom(Tail(cur), MapRemove(d, k), Append(out, apply(d[k], c)), valid)
             ELSE ScanFrom(Tail(cur), d, out, FALSE)

\* for (key, _) in delta.into_iter() { new.push(key) }
RECURSIVE PushKeys(_, _)
PushKeys(keys, out) ==
    IF keys = {} THEN out
    ELSE LET k == FirstKey(keys)
         IN  PushKeys(keys \ {k}, Append(out, k))

----------------------------------------------------------------------------
(* The attribute store *)

NoAttr == [kind |-> "none", bytes |-> <<>>]
GetErr == [kind |-> "error", bytes |-> <<>>]
Attr(b) == [kind |-> "bytes", bytes |-> b]

\* String::from_utf8 on the modelled bytes: ASCII bytes are the characters
\* themselves, InvalidByte (0xFF) never occurs in UTF-8
from_utf8_ok(b) == \A i \in 1..Len(b) : b[i] < 128

get_value(s) ==
    IF s.kind = "bytes" /\ from_utf8_ok(s.bytes) THEN s.bytes ELSE DefaultFlags

IoErrors == {"EACCES", "ENOTSUP"}

----------------------------------------------------------------------------
(* Inputs *)

NoCli == [m \in {} |-> <<FALSE, FALSE>>]

Pairs == {<<FALSE, FALSE>>, <<TRUE, FALSE>>, <<FALSE, TRUE>>, <<TRUE, TRUE>>}

NoFlags == [m \in Marks |-> <<FALSE, FALSE>>]

\* number of options on the command line
NumFlags(f) == Cardinality({m \in Marks : f[m][1]}) + Cardinality({m \in Marks : f[m][2]})

\* -P and -p are in one clap group, which admits one of its members
Conflict(f) == \E m \in Marks : f[m][1] /\ f[m][2]

AllFlags == [Marks -> Pairs]

FewFlags == {f \in AllFlags : NumFlags(f) <= MaxFlags}

\* a command line with no more than one option
OneFlag == {f \in AllFlags : NumFlags(f) <= 1}

Lower(m) == m + 32

Alphabet == Marks \cup {Lower(m) : m \in Marks} \cup {chq, InvalidByte}

RECURSIVE SeqsUpTo(_, _)
SeqsUpTo(S, n) ==
    IF n = 0 THEN {<<>>}
    ELSE LET prev == SeqsUpTo(S, n - 1)
         IN  prev \cup {Append(s, x) : s \in {t \in prev : Len(t) = n - 1}, x \in S}

\* every order of the five marks, each in either case
WellFormedStrings ==
    {s \in [1..5 -> Marks \cup {Lower(m) : m \in Marks}] :
        \A m \in Marks : \E i \in 1..5 : s[i] \in {m, Lower(m)}}

\* the values of section 8 of the design and their neighbours
Samples ==
    { <<>>,
      <<Lower(chP), chE, Lower(chM), chR, chS>>,
      <<chP, chP, chE, chM, chR>>,
      <<chP, Lower(chP), chP, chQ, chS, chS>>,
      <<chq, chQ, chq>>,
      <<Lower(chP), chE, Lower(chM)>>,
      <<Lower(chS), Lower(chR), chP, Lower(chM), Lower(chE), chE>> }

----------------------------------------------------------------------------
(* Messages *)

NoValue == <<>>

Msg(k, v, e) == [kind |-> k, value |-> v, err |-> e]

\* println!("{HELP_MSG}")
MsgHelp == Msg("help", NoValue, "")
\* println!("Current {USER_PAX_FLAGS} xattr value: {current}")
MsgCurrent(v) == Msg("current", v, "")
\* eprintln!("The old {USER_PAX_FLAGS} value is either dirty or invalid")
MsgDirty == Msg("dirty", NoValue, "")
\* eprintln!("Only the first valid marks from this value will be used")
MsgFirstOnly == Msg("first_only", NoValue, "")
\* eprintln!("Error on setting xattr value: {err}")
MsgSetErr(e) == Msg("set_err", NoValue, e)
\* println!("Set {USER_PAX_FLAGS} xattr to {new} successfully!")
MsgSetOk(v) == Msg("set_ok", v, "")
\* the error clap prints in err.exit()
MsgClapErr == Msg("clap_err", NoValue, "")

----------------------------------------------------------------------------
(* Initial states *)

RunInit(a, s) ==
    /\ pc = "start"
    /\ args = a
    /\ cli = NoCli
    /\ store = s
    /\ storeOwn = FALSE
    /\ current = <<>>
    /\ delta = EmptyMap
    /\ new = <<>>
    /\ valid_current = TRUE
    /\ stdout = <<>>
    /\ stderr = <<>>
    /\ observed = <<>>

Help == [help |-> TRUE, flags |-> NoFlags]
Flags(f) == [help |-> FALSE, flags |-> f]

Init ==
    \/ \E f \in FewFlags, b \in SeqsUpTo(Alphabet, MaxLen) : RunInit(Flags(f), Attr(b))
    \/ \E f \in AllFlags, b \in Samples : RunInit(Flags(f), Attr(b))
    \/ \E f \in AllFlags, s \in {NoAttr, GetErr} : RunInit(Flags(f), s)
    \/ \E f \in OneFlag, b \in WellFormedStrings : RunInit(Flags(f), Attr(b))
    \/ \E s \in {NoAttr, Attr(<<>>)} : RunInit(Help, s)
    \/ /\ pc = "test"
       /\ args = Flags(NoFlags)
       /\ cli = NoCli
       /\ store = NoAttr
       /\ storeOwn = FALSE
       /\ current = <<>>
       /\ delta = EmptyMap
       /\ new = <<>>
       /\ valid_current = TRUE
       /\ stdout = <<>>
       /\ stderr = <<>>
       /\ observed = <<>>

----------------------------------------------------------------------------
(* main *)

\* Cli::try_parse returns Ok
TryParseOk ==
    /\ pc = "start"
    /\ ~args.help
    /\ ~Conflict(args.flags)
    /\ cli' = args.flags
    /\ pc' = "parsed"
    /\ UNCHANGED <<args, store, storeOwn, current, delta, new, valid_current,
                   stdout, stderr, observed>>

\* an error other than DisplayHelp: err.exit()
TryParseErr ==
    /\ pc = "start"
    /\ ~args.help
    /\ Conflict(args.flags)
    /\ stderr' = Append(stderr, MsgClapErr)
    /\ pc' = "exit"
    /\ UNCHANGED <<args, cli, store, storeOwn, current, delta, new, valid_current,
                   stdout, observed>>

\* DisplayHelp: the help message is printed by hand, exit(0)
PrintHelp ==
    /\ pc = "start"
    /\ args.help
    /\ stdout' = Append(stdout, MsgHelp)
    /\ pc' = "exit"
    /\ UNCHANGED <<args, cli, store, storeOwn, current, delta, new, valid_current,
                   stderr, observed>>

\* let current = get_value(..); println!(..)
GetValue ==
    /\ pc = "parsed"
    /\ current' = get_value(store)
    /\ stdout' = Append(stdout, MsgCurrent(current'))
    /\ pc' = "read"
    /\ UNCHANGED <<args, cli, store, storeOwn, delta, new, valid_current,
                   stderr, observed>>

\* let mut valid_current = true; let mut delta = cli.get_delta();
GetDelta ==
    /\ pc = "read"
    /\ valid_current' = TRUE
    /\ delta' = get_delta(cli)
    /\ pc' = "scan"
    /\ UNCHANGED <<args, cli, store, storeOwn, current, new, stdout, stderr, observed>>

\* let mut new = current.chars().filter_map(..).collect::<String>();
Scan ==
    /\ pc = "scan"
    /\ LET r == ScanFrom(current, delta, <<>>, valid_current)
       IN  /\ delta' = r.delta
           /\ new' = r.new
           /\ valid_current' = r.valid
    /\ pc' = "push"
    /\ UNCHANGED <<args, cli, store, storeOwn, current, stdout, stderr, observed>>

\* the remaining keys are pushed, then the user is warned of a dirty value
PushRemaining ==
    /\ pc = "push"
    /\ new' = PushKeys(DOMAIN delta, new)
    /\ delta' = EmptyMap
    /\ stderr' = IF ~valid_current
                 THEN stderr \o <<MsgDirty, MsgFirstOnly>>
                 ELSE stderr
    /\ pc' = "set"
    /\ UNCHANGED <<args, cli, store, storeOwn, current, valid_current, stdout, observed>>

\* set_value returns Ok(())
SetValueOk ==
    /\ pc = "set"
    /\ store' = Attr(new)
    /\ storeOwn' = TRUE
    /\ stdout' = Append(stdout, MsgSetOk(new))
    /\ pc' = "done"
    /\ UNCHANGED <<args, cli, current, delta, new, valid_current, stderr, observed>>

\* the success message is printed on the failure path as well
SetValueErr_AlsoSet ==
    /\ pc = "set"
    /\ \E e \in IoErrors : stderr' = Append(stderr, MsgSetErr(e))
    /\ stdout' = Append(stdout, MsgSetOk(new))
    /\ pc' = "done"
    /\ UNCHANGED <<args, cli, store, storeOwn, current, delta, new, valid_current,
                   observed>>

\* set_value returns Err(err)
SetValueErr ==
    /\ pc = "set"
    /\ \E e \in IoErrors : stderr' = Append(stderr, MsgSetErr(e))
    /\ pc' = "done"
    /\ UNCHANGED <<args, cli, store, storeOwn, current, delta, new, valid_current,
                   stdout, observed>>

\* the same command line is run once more on the binary
Rerun ==
    /\ pc = "done"
    /\ pc' = "start"
    /\ cli' = NoCli
    /\ current' = <<>>
    /\ delta' = EmptyMap
    /\ new' = <<>>
    /\ valid_current' = TRUE
    /\ stdout' = <<>>
    /\ stderr' = <<>>
    /\ UNCHANGED <<args, store, storeOwn, observed>>

----------------------------------------------------------------------------
(* mod tests *)

\* tests::cli_to_flag_delta: Delta::new on each pair of booleans
cli_to_flag_delta ==
    /\ pc = "test"
    /\ \E p \in Pairs : observed' = <<"new", p[1], p[2], Delta_new(p[1], p[2])>>
    /\ UNCHANGED <<pc, args, cli, store, storeOwn, current, delta, new,
                   valid_current, stdout, stderr>>

\* tests::delta_apply: each Delta applied to 'Q' and to 'q'
delta_apply ==
    /\ pc = "test"
    /\ \E d \in Delta, c \in {chQ, chq} : observed' = <<"apply", d, c, apply(d, c)>>
    /\ UNCHANGED <<pc, args, cli, store, storeOwn, current, delta, new,
                   valid_current, stdout, stderr>>

Next ==
    \/ TryParseOk
    \/ TryParseErr
    \/ PrintHelp
    \/ GetValue
    \/ GetDelta
    \/ Scan
    \/ PushRemaining
    \/ SetValueOk
    \/ SetValueErr
    \/ Rerun
    \/ cli_to_flag_delta
    \/ delta_apply

Spec == Init /\ [][Next]_vars

----------------------------------------------------------------------------
(* Vocabulary of the properties *)

\* the mark a character denotes in either case, 0 for any other character
MarkOf(c) ==
    IF c \in Marks THEN c
    ELSE IF (c - 32) \in Marks THEN c - 32
    ELSE 0

\* the positions of a string that denote mark m
Occ(s, m) == {i \in 1..Len(s) : MarkOf(s[i]) = m}

FirstOcc(s, m) == CHOOSE i \in Occ(s, m) : \A j \in Occ(s, m) : i <= j

\* each of the five marks once and nothing else
WellFormed(s) == Len(s) = 5 /\ \A m \in Marks : Cardinality(Occ(s, m)) = 1

\* no character that is not a mark, and no mark twice
Clean(s) ==
    /\ \A i \in 1..Len(s) : MarkOf(s[i]) # 0
    /\ \A m \in Marks : Cardinality(Occ(s, m)) <= 1

\* new is complete: the scan and the pushes are over
Reconciled == pc \in {"set", "done"}

\* the directive of mark m in this run
Directive(m) == get_delta(cli)[m]

\* the letter a directive asks for, given the character read
Resolved(d, c) ==
    IF d = "Enable" THEN MarkOf(c)
    ELSE IF d = "Disable" THEN Lower(MarkOf(c))
    ELSE c

Range(s) == {s[i] : i \in 1..Len(s)}

Printed == Range(stdout) \cup Range(stderr)

----------------------------------------------------------------------------
(* Properties *)

\* C1: whatever the attribute held and whatever the directives, the string
\* built by the scan and the pushes is five characters long and holds each of
\* the five marks exactly once, in one case or the other.
Thm_C1_FiveMarksOnce ==
    Reconciled =>
        /\ Len(new) = 5
        /\ \A m \in Marks : Cardinality(Occ(new, m)) = 1

\* a dirty value: a mark twice, a mark missing and a character that is no mark
Wit_C1_DirtyValue ==
    /\ Reconciled
    /\ \E m \in Marks : Cardinality(Occ(current, m)) > 1
    /\ \E m \in Marks : Occ(current, m) = {}
    /\ \E i \in 1..Len(current) : MarkOf(current[i]) = 0

\* C2 (as stated): a mark whose directive is Disable is in lower case in the
\* output, whether the value held it in upper case, in lower case or not at all.
Claim_C2_DisableIsLower ==
    Reconciled =>
        \A m \in Marks :
            Directive(m) = "Disable" =>
                /\ Occ(new, m) # {}
                /\ \A i \in Occ(new, m) : new[i] = Lower(m)

\* C3 (as stated): valid_current is true exactly when the value holds each of
\* the five marks once and nothing else.
Claim_C3_ValidIffWellFormed ==
    Reconciled => (valid_current <=> WellFormed(current))

\* C3 (amended): valid_current is true exactly when the value holds no
\* character that is not a mark and no mark twice; a missing mark does not
\* clear it.
Thm_C3_ValidIffClean ==
    Reconciled => (valid_current <=> Clean(current))

\* a value with a mark missing that is still reported valid
Wit_C3_ValidWithMissingMark ==
    /\ Reconciled
    /\ valid_current
    /\ current # <<>>
    /\ \E m \in Marks : Occ(current, m) = {}

\* C4 (as stated): a run on the value the previous run of the same command
\* wrote computes that same value again.
Claim_C4_Idempotent ==
    (pc = "set" /\ storeOwn) => new = current

\* C5: with every directive Keep and a value of the five marks once each, in
\* any order and any cases, the output is the value, and the value is valid.
Thm_C5_KeepIsIdentity ==
    (/\ Reconciled
     /\ \A m \in Marks : Directive(m) = "Keep"
     /\ WellFormed(current))
        => (new = current /\ valid_current)

\* all Keep on a well-formed value of mixed cases that is not in key order
Wit_C5_MixedCaseValue ==
    /\ Reconciled
    /\ \A m \in Marks : Directive(m) = "Keep"
    /\ WellFormed(current)
    /\ \E i, j \in 1..5 : current[i] \in Marks /\ current[j] \notin Marks
    /\ \E i \in 1..4 : MarkOf(current[i]) > MarkOf(current[i + 1])

\* C6: of a mark that occurs more than once only the first occurrence counts:
\* the output holds the mark once, as the first occurrence with the directive
\* applied, and the value is reported invalid.
Thm_C6_FirstOccurrenceWins ==
    Reconciled =>
        \A m \in Marks :
            Cardinality(Occ(current, m)) > 1 =>
                /\ ~valid_current
                /\ Cardinality(Occ(new, m)) = 1
                /\ \A i \in Occ(new, m) :
                       new[i] = Resolved(Directive(m), current[FirstOcc(current, m)])

\* a kept mark whose first occurrence is in lower case and a later one in upper case
Wit_C6_LaterOccurrenceDiffers ==
    /\ Reconciled
    /\ \E m \in Marks :
           /\ Directive(m) = "Keep"
           /\ Cardinality(Occ(current, m)) > 1
           /\ current[FirstOcc(current, m)] = Lower(m)
           /\ \E j \in Occ(current, m) : current[j] = m

\* the run ended on a failed write
WriteFailed == pc = "done" /\ \E x \in Range(stderr) : x.kind = "set_err"

\* C7 (as stated): after a failed write the computed string has been shown to
\* the user as well.
Claim_C7_ShownOnFailure ==
    WriteFailed => \E x \in Printed : x.kind \in {"set_ok", "current"} /\ x.value = new

\* C7 (amended): the computed string is reported by the success message only:
\* after a failed write the last thing printed is the error and no message
\* reports the computed string, after a successful write the last line of the
\* output reports it.
Thm_C7_ShownOnSuccessOnly ==
    pc = "done" =>
        IF WriteFailed
        THEN /\ stderr[Len(stderr)].kind = "set_err"
             /\ \A x \in Printed : x.kind # "set_ok"
        ELSE /\ stdout[Len(stdout)] = MsgSetOk(new)
             /\ \A x \in Printed : x.kind # "set_err"

\* a failed write of a string that differs from the value read
Wit_C7_FailedWriteOfChange ==
    /\ WriteFailed
    /\ new # current

\* C8 (as stated): on the empty value the flag stays true and the output is
\* the five letters as the directives resolve them, lower case for Disable and
\* upper case for Enable and Keep.
Claim_C8_EmptyValue ==
    (Reconciled /\ current = <<>>) =>
        /\ valid_current
        /\ Len(new) = 5
        /\ \A m \in Marks :
               \E i \in 1..Len(new) :
                   new[i] = (IF Directive(m) = "Disable" THEN Lower(m) ELSE m)

\* what the assertions of tests::delta_apply expect
ApplyExpected(d, c) ==
    IF d = "Enable" THEN chQ
    ELSE IF d = "Disable" THEN chq
    ELSE c

\* C9: a mark whose directive is Enable is in upper case in the output, whatever
\* the case of its first occurrence and also when the value does not hold it;
\* on a single character apply gives the upper case form under Enable, the lower
\* case form under Disable and the character itself under Keep.
Thm_C9_EnableIsUpper ==
    /\ Reconciled =>
           \A m \in Marks :
               Directive(m) = "Enable" =>
                   /\ Occ(new, m) # {}
                   /\ \A i \in Occ(new, m) : new[i] = m
    /\ (observed # <<>> /\ observed[1] = "apply") =>
           observed[4] = ApplyExpected(observed[2], observed[3])

\* an enabled mark read in lower case and an enabled mark that was missing
Wit_C9_LowerAndMissing ==
    /\ Reconciled
    /\ \E m \in Marks :
           /\ Directive(m) = "Enable"
           /\ Occ(current, m) # {}
           /\ current[FirstOcc(current, m)] = Lower(m)
    /\ \E m \in Marks :
           /\ Directive(m) = "Enable"
           /\ Occ(current, m) = {}

\* what the assertions of tests::cli_to_flag_delta expect
NewExpected ==
    [p \in Pairs |->
        IF p = <<TRUE, TRUE>> THEN "Enable"
        ELSE IF p = <<TRUE, FALSE>> THEN "Enable"
        ELSE IF p = <<FALSE, TRUE>> THEN "Disable"
        ELSE "Keep"]

\* C10: Delta::new answers on each of the four pairs of booleans, Enable before
\* Disable before Keep, and the map get_delta builds has one such directive for
\* each of the five marks.
Thm_C10_Precedence ==
    /\ (observed # <<>> /\ observed[1] = "new") =>
           observed[4] = NewExpected[<<observed[2], observed[3]>>]
    /\ pc = "scan" =>
           /\ DOMAIN delta = Marks
           /\ \A m \in Marks : delta[m] = NewExpected[cli[m]]

\* Delta::new was called with both booleans set
Wit_C10_BothSet ==
    /\ observed # <<>>
    /\ observed[1] = "new"
    /\ observed[2]
    /\ observed[3]
====
